---- MODULE Spec2Model ----
(***************************************************************************)
(* State-machine model of src/diffusiontools/canvas.py: the region classes *)
(* (CanvasRegion, Text2ImageRegion, Image2ImageRegion), MaskWeightsBuilder *)
(* and StableDiffusionCanvasPipeline.__call__.                             *)
(*                                                                         *)
(* Tensors are functions from latent positions to cells.  The external     *)
(* collaborators (random generator, tokenizer, text encoder, VAE, U-net,   *)
(* scheduler) are uninterpreted: their results are tagged tuples built     *)
(* from their arguments, so equal arguments give equal results and nothing *)
(* else is assumed of them.  Mask weights are non-negative fixed-point     *)
(* numbers or NaN.                                                         *)
(***************************************************************************)
EXTENDS Integers, Sequences, FiniteSets, TLC

VARIABLES
    obj,        \* RegionSpec: the region object under construction / use
    raised,     \* the exception raised by the last operation ("" if none)
    args,       \* the arguments of the last constructor call
    op,         \* the name of the last operation called on obj
    regions,    \* __call__: the regions argument (objects mutated in place)
    params,     \* __call__: the other arguments and the scheduler in use
    pc,         \* __call__: the position in the body
    init_noise, \* __call__: the canvas-wide noise as drawn
    latents,    \* __call__: the working canvas latents
    i,          \* __call__: the index of the timestep loop
    mask_weights,        \* __call__: one weight tensor per text2image region
    noise_preds_regions, \* __call__: one guided prediction per text2image region
    noise_pred,          \* __call__: the merged prediction
    contributors,        \* __call__: the accumulated weights
    steps_images,        \* __call__: the snapshots decoded so far
    output,              \* __call__: the returned dictionary
    injected,            \* history: <<k, i>> when image region k was injected at index i
    twin                 \* PermSpec: the same call on the list with two regions swapped

regionVars == <<obj, raised, args, op>>
callVars == <<regions, params, pc, init_noise, latents, i, mask_weights,
              noise_preds_regions, noise_pred, contributors, steps_images, output,
              injected, twin>>
vars == <<regionVars, callVars>>

(***************************************************************************)
(* Bounds of the model.                                                    *)
(***************************************************************************)
MaxPixel == 9
MaxSample == 2

\* Python's None
None == <<>>

\* Pixel coordinates offered to the constructors (any alignment, and -1).
PixelCoords == (-1)..MaxPixel

\* MaskModes (canvas.py:22-26): the values of the enumeration
MaskModes == {"constant", "gaussian", "quartic"}

\* mask_weight values offered to the constructors
MaskWeights == {1, 3}

\* prompts offered to the constructors
Prompts == {"a", "b"}

\* strengths offered to Image2ImageRegion, as <<numerator, denominator>>;
\* -1/2 and 3/2 are outside [0, 1]
CtorStrengths == {<<-1, 2>>, <<0, 1>>, <<1, 2>>, <<1, 1>>, <<3, 2>>}

\* reference images offered to Image2ImageRegion: None or an image of some size
CtorImages == {None, <<"image", 1, 64, 64>>}

(***************************************************************************)
(* CanvasRegion.__post_init__ (canvas.py:37-42)                            *)
(***************************************************************************)
\* mutant: rounds up instead of down
LatentCoordCeil(pixel) == (pixel + 7) \div 8

\* x // 8: Python floor division, as \div is in TLA+
LatentCoord(pixel) == pixel \div 8

\* the object before any constructor has run
NoRegion ==
    [kind |-> "none",
     row_init |-> 0, row_end |-> 0, col_init |-> 0, col_end |-> 0,
     latent_row_init |-> 0, latent_row_end |-> 0,
     latent_col_init |-> 0, latent_col_end |-> 0,
     mask_type |-> "", mask_weight |-> 0,
     prompt |-> "", guidance_scale |-> <<0, 1>>, downscaling_factor |-> 0,
     tokenized_prompt |-> None, encoded_prompt |-> None,
     reference_image |-> None, strength |-> <<0, 1>>,
     reference_latents |-> None]

\* The dataclass __init__ stores the four bounds and __post_init__ derives the
\* latent bounds.  No comparison of the bounds is made.
CanvasRegion(row_init, row_end, col_init, col_end) ==
    [NoRegion EXCEPT
        !.kind = "CanvasRegion",
        !.row_init = row_init, !.row_end = row_end,
        !.col_init = col_init, !.col_end = col_end,
        !.latent_row_init = LatentCoord(row_init),
        !.latent_row_end = LatentCoord(row_end),
        !.latent_col_init = LatentCoord(col_init),
        !.latent_col_end = LatentCoord(col_end)]

\* CanvasRegion.width (canvas.py:44-46)
Width(region) == region.col_end - region.col_init

\* CanvasRegion.height (canvas.py:48-50)
Height(region) == region.row_end - region.row_init

(***************************************************************************)
(* Text2ImageRegion (canvas.py:61-77)                                      *)
(***************************************************************************)
\* guidance_scale default 7.5 = 15/2 (canvas.py:65)
DefaultGuidance == <<15, 2>>

\* tokenized_prompt and encoded_prompt start as None (class attributes)
Text2ImageRegion(row_init, row_end, col_init, col_end, mask_type, mask_weight, prompt) ==
    [CanvasRegion(row_init, row_end, col_init, col_end) EXCEPT
        !.kind = "Text2ImageRegion",
        !.mask_type = mask_type, !.mask_weight = mask_weight,
        !.prompt = prompt, !.guidance_scale = DefaultGuidance,
        !.downscaling_factor = 1]

\* the external tokenizer: a function of the text
Tokenizer(text) == <<"tokens", text>>

\* the external text encoder: a function of the token ids
TextEncoder(tokens) == <<"embedding", tokens>>

\* tokenize_prompt (canvas.py:70-72)
TokenizePromptOf(region) ==
    [region EXCEPT !.tokenized_prompt = Tokenizer(region.prompt)]

\* mutant: the assert is missing and the encoder is fed whatever is there
EncodePromptRaisesNever(region) == FALSE

\* encode_prompt (canvas.py:76): the assert fails when nothing is tokenized
EncodePromptRaises(region) == region.tokenized_prompt = None

\* encode_prompt (canvas.py:77)
EncodePromptOf(region) ==
    [region EXCEPT !.encoded_prompt = TextEncoder(region.tokenized_prompt)]

(***************************************************************************)
(* Image2ImageRegion (canvas.py:80-97)                                     *)
(***************************************************************************)
\* rationals <<n, d>> with d > 0
RatLess(a, b) == a[1] * b[2] < b[1] * a[2]

\* __post_init__ (canvas.py:88-91): which ValueError is raised, "" if none
Image2ImagePostInitRaises(reference_image, strength) ==
    IF reference_image = None THEN "ValueError"
    ELSE IF RatLess(strength, <<0, 1>>) \/ RatLess(<<1, 1>>, strength) THEN "ValueError"
    ELSE ""

\* torchvision resize (canvas.py:93) gives an image of exactly the region's
\* pixel size; it cannot produce an image with a non-positive side
ResizeRaises(height, width) == height <= 0 \/ width <= 0

\* the resized image
Resize(image, height, width) == <<"image", image[2], height, width>>

Image2ImageRegion(row_init, row_end, col_init, col_end, mask_type, mask_weight, reference_image, strength) ==
    LET base == CanvasRegion(row_init, row_end, col_init, col_end)
    IN [base EXCEPT
           !.kind = "Image2ImageRegion",
           !.mask_type = mask_type, !.mask_weight = mask_weight,
           !.strength = strength,
           !.reference_image = Resize(reference_image, Height(base), Width(base))]

\* the positions of a tensor of `rows` x `cols` cells, 0-based as in the code.
\* One batch entry and one channel are modelled: every operation of the
\* pipeline acts alike on each of them.
Positions(rows, cols) == (0..(rows - 1)) \X (0..(cols - 1))

\* the external VAE encoder: encode(image).sample() draws one latent sample,
\* a tensor 8 times smaller than the image
VaeEncodeSample(image, sample) ==
    [p \in Positions(image[3] \div 8, image[4] \div 8) |->
        <<"vae", image[2], sample, p[1], p[2]>>]

\* encode_reference_image (canvas.py:95-97)
EncodeReferenceImageOf(region, sample) ==
    [region EXCEPT !.reference_latents = VaeEncodeSample(region.reference_image, sample)]

(***************************************************************************)
(* RegionSpec: one region object is constructed, then its methods are      *)
(* called in any order.                                                    *)
(***************************************************************************)
NoArgs == [row_init |-> 0, row_end |-> 0, col_init |-> 0, col_end |-> 0]

\* no generation call is in progress
CallIdle ==
    /\ regions = <<>>
    /\ params = None
    /\ pc = "idle"
    /\ init_noise = None
    /\ latents = None
    /\ i = 0
    /\ mask_weights = <<>>
    /\ noise_preds_regions = <<>>
    /\ noise_pred = None
    /\ contributors = None
    /\ steps_images = <<"unset">>
    /\ output = None
    /\ injected = {}
    /\ twin = None

RegionInit ==
    /\ obj = NoRegion
    /\ raised = ""
    /\ args = NoArgs
    /\ op = ""
    /\ CallIdle

NewCanvasRegion ==
    /\ obj.kind = "none" /\ raised = ""
    /\ \E ri, re, ci, ce \in PixelCoords :
        /\ args' = [row_init |-> ri, row_end |-> re, col_init |-> ci, col_end |-> ce]
        /\ obj' = CanvasRegion(ri, re, ci, ce)
    /\ raised' = ""
    /\ op' = "CanvasRegion"
    /\ UNCHANGED callVars

NewText2ImageRegion ==
    /\ obj.kind = "none" /\ raised = ""
    /\ \E ri, re, ci, ce \in PixelCoords, prompt \in Prompts :
        /\ args' = [row_init |-> ri, row_end |-> re, col_init |-> ci, col_end |-> ce]
        /\ obj' = Text2ImageRegion(ri, re, ci, ce, "quartic", 1, prompt)
    /\ raised' = ""
    /\ op' = "Text2ImageRegion"
    /\ UNCHANGED callVars

NewImage2ImageRegion ==
    /\ obj.kind = "none" /\ raised = ""
    /\ \E ri, re, ci, ce \in PixelCoords, image \in CtorImages, strength \in CtorStrengths :
        /\ args' = [row_init |-> ri, row_end |-> re, col_init |-> ci, col_end |-> ce]
        /\ LET err == Image2ImagePostInitRaises(image, strength)
           IN IF err # ""
              THEN obj' = obj /\ raised' = err
              ELSE IF ResizeRaises(re - ri, ce - ci)
              THEN obj' = obj /\ raised' = "RuntimeError"
              ELSE /\ obj' = Image2ImageRegion(ri, re, ci, ce, "constant", 1, image, strength)
                   /\ raised' = ""
    /\ op' = "Image2ImageRegion"
    /\ UNCHANGED callVars

TokenizePrompt ==
    /\ obj.kind = "Text2ImageRegion"
    /\ obj' = TokenizePromptOf(obj)
    /\ raised' = ""
    /\ UNCHANGED args
    /\ op' = "tokenize_prompt"
    /\ UNCHANGED callVars

EncodePrompt ==
    /\ obj.kind = "Text2ImageRegion"
    /\ IF EncodePromptRaises(obj)
       THEN obj' = obj /\ raised' = "AssertionError"
       ELSE obj' = EncodePromptOf(obj) /\ raised' = ""
    /\ UNCHANGED args
    /\ op' = "encode_prompt"
    /\ UNCHANGED callVars

EncodeReferenceImage ==
    /\ obj.kind = "Image2ImageRegion"
    /\ \E sample \in 1..MaxSample : obj' = EncodeReferenceImageOf(obj, sample)
    /\ raised' = ""
    /\ UNCHANGED args
    /\ op' = "encode_reference_image"
    /\ UNCHANGED callVars

RegionNext ==
    \/ NewCanvasRegion
    \/ NewText2ImageRegion
    \/ NewImage2ImageRegion
    \/ TokenizePrompt
    \/ EncodePrompt
    \/ EncodeReferenceImage

RegionSpec == RegionInit /\ [][RegionNext]_vars

(***************************************************************************)
(* Numbers.  Mask weights and their sums are non-negative fixed-point      *)
(* numbers <<"fx", hi, lo>> = hi + lo / 10^8, or NaN.                      *)
(***************************************************************************)
NaN == <<"nan">>

\* one, in units of 10^-8
FxUnit == 10000 * 10000

FxZero == <<"fx", 0, 0>>

\* a + b with NaN propagating
FxAdd(a, b) ==
    IF a = NaN \/ b = NaN THEN NaN
    ELSE <<"fx", a[2] + b[2] + ((a[3] + b[3]) \div FxUnit), (a[3] + b[3]) % FxUnit>>

\* y * x * mask_weight, for y and x either <<"p", v>>, v in units of 10^-4, or
\* NaN, and an integer mask_weight
FxProduct(y, x, mask_weight) ==
    IF y = NaN \/ x = NaN THEN NaN
    ELSE LET z == y[2] * x[2]
             lo == (z % FxUnit) * mask_weight
         IN <<"fx", (z \div FxUnit) * mask_weight + (lo \div FxUnit), lo % FxUnit>>

(***************************************************************************)
(* MaskWeightsBuilder (canvas.py:100-148)                                  *)
(***************************************************************************)
LatentWidth(region) == region.latent_col_end - region.latent_col_init
LatentHeight(region) == region.latent_row_end - region.latent_row_init

\* _constant_weights (canvas.py:115-119): ones * mask_weight
ConstantWeights(region) ==
    [p \in Positions(LatentHeight(region), LatentWidth(region)) |->
        <<"fx", region.mask_weight, 0>>]

\* canvas.py:128,130: exp(-(x-midpoint)^2 / n^2 / (2*var)) / sqrt(2*pi*var) for
\* x in range(n), var = 0.01, midpoint = (n-1)/2, to four decimals, in units
\* of 10^-4, for n = 1..4
GaussianProbs(n) ==
    CASE n <= 0 -> <<>>
      [] n = 1 -> << <<"p", 39894>> >>
      [] n = 2 -> << <<"p", 1753>>, <<"p", 1753>> >>
      [] n = 3 -> << <<"p", 154>>, <<"p", 39894>>, <<"p", 154>> >>
      [] n = 4 -> << <<"p", 35>>, <<"p", 18265>>, <<"p", 18265>>, <<"p", 35>> >>

\* _gaussian_weights (canvas.py:121-133): outer(y_probs, x_probs) * mask_weight
GaussianWeights(region) ==
    LET x_probs == GaussianProbs(LatentWidth(region))
        y_probs == GaussianProbs(LatentHeight(region))
    IN [p \in Positions(LatentHeight(region), LatentWidth(region)) |->
           FxProduct(y_probs[p[1] + 1], x_probs[p[2] + 1], region.mask_weight)]

\* canvas.py:142-145: (15/16) * (1 - u^2)^2 with u = k / (n - 1) * 1.99 - 0.995
\* for k in range(n), to four decimals, in units of 10^-4, for n = 1..4.
\* For n = 1 the support is 0 / 0: numpy gives NaN.
QuarticProbs(n) ==
    CASE n <= 0 -> <<>>
      [] n = 1 -> << NaN >>
      [] n = 2 -> << <<"p", 1>>, <<"p", 1>> >>
      [] n = 3 -> << <<"p", 1>>, <<"p", 9375>>, <<"p", 1>> >>
      [] n = 4 -> << <<"p", 1>>, <<"p", 7426>>, <<"p", 7426>>, <<"p", 1>> >>

\* _quartic_weights (canvas.py:135-148): outer(y_probs, x_probs) * mask_weight
QuarticWeights(region) ==
    LET x_probs == QuarticProbs(LatentWidth(region))
        y_probs == QuarticProbs(LatentHeight(region))
    IN [p \in Positions(LatentHeight(region), LatentWidth(region)) |->
           FxProduct(y_probs[p[1] + 1], x_probs[p[2] + 1], region.mask_weight)]

\* compute_mask_weights (canvas.py:106-113)
ComputeMaskWeights(region) ==
    CASE region.mask_type = "constant" -> ConstantWeights(region)
      [] region.mask_type = "gaussian" -> GaussianWeights(region)
      [] region.mask_type = "quartic" -> QuarticWeights(region)

(***************************************************************************)
(* Tensors                                                                 *)
(***************************************************************************)
\* T[:, :, r0:r1, c0:c1]
Slice(T, r0, r1, c0, c1) ==
    [p \in Positions(r1 - r0, c1 - c0) |-> T[<<p[1] + r0, p[2] + c0>>]]

\* T[:, :, r0:r1, c0:c1] = S
Assign(T, r0, r1, c0, c1, S) ==
    [p \in DOMAIN T |->
        IF p[1] >= r0 /\ p[1] < r1 /\ p[2] >= c0 /\ p[2] < c1
        THEN S[<<p[1] - r0, p[2] - c0>>]
        ELSE T[p]]

RegionSlice(T, region) ==
    Slice(T, region.latent_row_init, region.latent_row_end,
          region.latent_col_init, region.latent_col_end)

RegionAssign(T, region, S) ==
    Assign(T, region.latent_row_init, region.latent_row_end,
           region.latent_col_init, region.latent_col_end, S)

\* torch.randn(shape, generator=Generator().manual_seed(seed)): the draws of a
\* generator are a function of its seed and of the shape asked for
Randn(seed, rows, cols) ==
    [p \in Positions(rows, cols) |-> <<"randn", seed, rows, cols, p[1], p[2]>>]

Min(a, b) == IF a <= b THEN a ELSE b

\* int(x) of Python for x = n / d, d > 0: truncation towards zero
IntOf(n, d) == IF n >= 0 THEN n \div d ELSE -((-n) \div d)

(***************************************************************************)
(* StableDiffusionCanvasPipeline.__call__ (canvas.py:175-334)              *)
(***************************************************************************)
\* canvas.py:220
Text2ImageRegions(rs) == SelectSeq(rs, LAMBDA r : r.kind = "Text2ImageRegion")

\* canvas.py:221
Image2ImageRegions(rs) == SelectSeq(rs, LAMBDA r : r.kind = "Image2ImageRegion")

\* canvas.py:196: the last two entries of latents_shape
LatentsRows(ps) == ps.canvas_height \div 8
LatentsCols(ps) == ps.canvas_width \div 8

\* canvas.py:197: manual_seed accepts an integer only
SeedRaises(seed) == seed = None

\* mutant: latents is init_noise itself, not a copy of it, so that what is
\* written to latents is written to init_noise
InitNoiseAliased(noise, lat) == lat

\* what init_noise holds once the loop of canvas.py:202-205 has written to
\* latents: latents is a clone (canvas.py:199), so init_noise keeps its cells
InitNoiseAfterRerolls(noise, lat) == noise

\* canvas.py:203-205: one override
RerollAssign(lat, region, seed_reroll) ==
    RegionAssign(lat, region, Randn(seed_reroll, LatentHeight(region), LatentWidth(region)))

RECURSIVE ApplyRerolls(_, _)
\* canvas.py:202-205: the overrides, in list order
ApplyRerolls(lat, rerolls) ==
    IF rerolls = <<>> THEN lat
    ELSE ApplyRerolls(RerollAssign(lat, Head(rerolls)[1], Head(rerolls)[2]), Tail(rerolls))

\* canvas.py:208-213
Offset(ps) == IF ps.scheduler.accepts_offset THEN 1 ELSE 0

\* scheduler.timesteps after set_timesteps (canvas.py:214): one entry per
\* inference step; entry k (0-based) is uninterpreted
Timestep(ps, k) == <<"timestep", ps.num_inference_steps, Offset(ps), k>>

\* canvas.py:216-217
ScaleBySigma0(lat) == [p \in DOMAIN lat |-> <<"mul_sigma", lat[p], 0>>]

\* canvas.py:224-239 for one region: tokenize, encode, then prepend the
\* unconditional embedding
PrepareText2Image(region) ==
    LET enc == EncodePromptOf(TokenizePromptOf(region))
    IN [enc EXCEPT !.encoded_prompt =
           <<"cat", TextEncoder(Tokenizer("")), enc.encoded_prompt>>]

\* canvas.py:224-243: the regions after the preparation loops; the k-th
\* region's VAE draw is labelled k
PrepareRegions(rs) ==
    [k \in 1..Len(rs) |->
        IF rs[k].kind = "Text2ImageRegion" THEN PrepareText2Image(rs[k])
        ELSE IF rs[k].kind = "Image2ImageRegion" THEN EncodeReferenceImageOf(rs[k], k)
        ELSE rs[k]]

\* canvas.py:255-256
MaskWeightsOf(rs) ==
    [k \in 1..Len(Text2ImageRegions(rs)) |-> ComputeMaskWeights(Text2ImageRegions(rs)[k])]

\* mutant: the offset is left out of the cutoff
InfluenceStepNoOffset(ps, region) ==
    Min(IntOf(ps.num_inference_steps * region.strength[1], region.strength[2]),
        ps.num_inference_steps)

\* canvas.py:263-264
InfluenceStep(ps, region) ==
    Min(IntOf(ps.num_inference_steps * region.strength[1], region.strength[2]) + Offset(ps),
        ps.num_inference_steps)

\* scheduler.add_noise(reference, noise, timesteps), elementwise
AddNoise(reference, noise, t) ==
    [p \in DOMAIN noise |-> <<"add_noise", reference[p], noise[p], t>>]

\* canvas.py:265-270 for one region
InjectRegion(lat, noise, ps, region, idx) ==
    IF idx < InfluenceStep(ps, region)
    THEN RegionAssign(lat, region,
             AddNoise(region.reference_latents, RegionSlice(noise, region), Timestep(ps, idx)))
    ELSE lat

RECURSIVE InjectImage2Image(_, _, _, _, _)
\* canvas.py:262-270: the image2image regions, in list order
InjectImage2Image(lat, noise, ps, irs, idx) ==
    IF irs = <<>> THEN lat
    ELSE InjectImage2Image(InjectRegion(lat, noise, ps, Head(irs), idx), noise, ps, Tail(irs), idx)

\* canvas.py:283-295 for one region: the guided prediction of the U-net on the
\* region's slice of the canvas (scaled by the current sigma under LMS).  The
\* slice is named by the loop index and the rectangle it is cut from: the
\* canvas at a given index is one tensor, so the name determines the slice.
NoisePredRegion(ps, region, idx) ==
    LET latent_model_input ==
            <<IF ps.scheduler.is_lms THEN "latents_div_sigma" ELSE "latents", idx,
              region.latent_row_init, region.latent_row_end,
              region.latent_col_init, region.latent_col_end>>
    IN [p \in Positions(LatentHeight(region), LatentWidth(region)) |->
           <<"guided", region.encoded_prompt, region.guidance_scale, Timestep(ps, idx),
             latent_model_input, p[1], p[2]>>]

\* canvas.py:279-296
NoisePredsRegions(ps, trs, idx) ==
    [k \in 1..Len(trs) |-> NoisePredRegion(ps, trs[k], idx)]

\* torch.zeros for the accumulated prediction: a sum of (prediction, weight)
\* terms, empty
SumZero == <<"sum", {}>>

\* mutant: the term replaces what was accumulated instead of adding to it
AddTermOverwrite(acc, prediction, weight) ==
    IF weight = NaN THEN NaN ELSE <<"sum", {<<prediction, weight>>}>>

\* acc + prediction * weight: NaN if either side is, else the term is added
\* (weights of the same prediction add up)
AddTerm(acc, prediction, weight) ==
    IF acc = NaN \/ weight = NaN THEN NaN
    ELSE IF \E e \in acc[2] : e[1] = prediction
    THEN LET e == CHOOSE e \in acc[2] : e[1] = prediction
         IN <<"sum", (acc[2] \ {e}) \cup {<<prediction, FxAdd(e[2], weight)>>}>>
    ELSE <<"sum", acc[2] \cup {<<prediction, weight>>}>>

\* canvas.py:304 for one cell
AccumulateWeight(acc, weight) == FxAdd(acc, weight)

\* canvas.py:306 for one cell: acc / total.  0 / 0 is NaN, x / 0 is infinite,
\* (w * p) / w is p
Divide(acc, total) ==
    IF acc = NaN \/ total = NaN THEN NaN
    ELSE IF total = FxZero THEN (IF acc[2] = {} THEN NaN ELSE <<"inf">>)
    ELSE IF acc[2] = {} THEN <<"zero">>
    ELSE IF \E e \in acc[2] : acc[2] = {e} /\ e[2] = total
    THEN (CHOOSE e \in acc[2] : TRUE)[1]
    ELSE <<"avg", acc[2], total>>

\* mutant: the NaNs are left in place
NanToNumSkipped(x) == x

\* torch.nan_to_num (canvas.py:307) for one cell
NanToNum(x) ==
    IF x = NaN THEN <<"zero">>
    ELSE IF x = <<"inf">> THEN <<"max">>
    ELSE x

\* whether canvas position p lies in the region's latent rectangle
Covers(region, p) ==
    /\ p[1] >= region.latent_row_init /\ p[1] < region.latent_row_end
    /\ p[2] >= region.latent_col_init /\ p[2] < region.latent_col_end

\* p in the region's own coordinates
Local(region, p) == <<p[1] - region.latent_row_init, p[2] - region.latent_col_init>>

RECURSIVE MergeSum(_, _, _, _, _)
\* canvas.py:299,302-303: the accumulated prediction after regions k..
MergeSum(acc, trs, preds, weights, k) ==
    IF k > Len(trs) THEN acc
    ELSE MergeSum([p \in DOMAIN acc |->
                      IF Covers(trs[k], p)
                      THEN AddTerm(acc[p], preds[k][Local(trs[k], p)], weights[k][Local(trs[k], p)])
                      ELSE acc[p]],
                  trs, preds, weights, k + 1)

RECURSIVE MergeContributors(_, _, _, _)
\* canvas.py:300,302,304: the accumulated weights after regions k..
MergeContributors(acc, trs, weights, k) ==
    IF k > Len(trs) THEN acc
    ELSE MergeContributors([p \in DOMAIN acc |->
                               IF Covers(trs[k], p)
                               THEN AccumulateWeight(acc[p], weights[k][Local(trs[k], p)])
                               ELSE acc[p]],
                           trs, weights, k + 1)

\* canvas.py:299-304
Contributors(ps, trs, weights) ==
    MergeContributors([p \in Positions(LatentsRows(ps), LatentsCols(ps)) |-> FxZero],
                      trs, weights, 1)

\* canvas.py:298-307: the merged prediction handed to the scheduler
MergeNoisePreds(ps, trs, preds, weights) ==
    LET summed == MergeSum([p \in Positions(LatentsRows(ps), LatentsCols(ps)) |-> SumZero],
                           trs, preds, weights, 1)
        total == Contributors(ps, trs, weights)
    IN [p \in DOMAIN summed |-> NanToNum(Divide(summed[p], total[p]))]

\* canvas.py:249-252
ExtraStepKwargs(ps) == IF ps.scheduler.accepts_eta THEN <<ps.eta>> ELSE <<>>

\* mutant: every pass steps with the first entry of the timestep sequence
SchedulerStepFirstTimestep(prediction, ps, idx, lat) ==
    [p \in DOMAIN lat |->
        <<"step", prediction[p],
          IF ps.scheduler.is_lms THEN <<"index", 0>> ELSE Timestep(ps, 0),
          lat[p], ExtraStepKwargs(ps)>>]

\* canvas.py:310-313: scheduler.step, elementwise; LMS is given the index
\* instead of the timestep
SchedulerStep(prediction, ps, idx, lat) ==
    [p \in DOMAIN lat |->
        <<"step", prediction[p],
          IF ps.scheduler.is_lms THEN <<"index", idx>> ELSE Timestep(ps, idx),
          lat[p], ExtraStepKwargs(ps)>>]

\* StableDiffusionExtrasMixin.decode_latents
DecodeLatents(lat, cpu_vae) == <<"decoded", lat, cpu_vae>>

(***************************************************************************)
(* The arguments offered to __call__                                       *)
(***************************************************************************)
MaxRegions == 2
MaxSteps == 2

\* the variable steps_images before it is bound
Unset == <<"unset">>

\* the canvas offered: 16 x 16 pixels, 2 x 2 latent cells
CanvasSizes == {16}

\* pixel bounds <<init, end>> of the regions offered: the rows are all of the
\* canvas or its upper half, the columns all of the canvas
RowBounds == {<<0, 16>>, <<0, 8>>}
ColBounds == {<<0, 16>>}

\* <<mask_type, mask_weight, prompt>> of the text regions offered
TextStyles ==
    {<<"constant", 1, "a">>, <<"constant", 3, "b">>, <<"gaussian", 1, "a">>,
     <<"quartic", 3, "b">>}


TextVariants ==
    {Text2ImageRegion(rb[1], rb[2], cb[1], cb[2], st[1], st[2], st[3]) :
        rb \in RowBounds, cb \in ColBounds, st \in TextStyles}

\* the image regions offered: the whole canvas at strength 1/2, its upper
\* half at strength 1
ImageVariants ==
    {Image2ImageRegion(0, 16, 0, 16, "constant", 1, <<"image", 1, 64, 64>>, <<1, 2>>),
     Image2ImageRegion(0, 8, 0, 16, "constant", 1, <<"image", 2, 64, 64>>, <<1, 1>>)}

RegionLists == UNION {[1..n -> TextVariants \cup ImageVariants] : n \in 0..MaxRegions}

\* seed_reroll_regions: None (the default), or the upper half of the canvas
\* redrawn with seed 9
RerollLists == {None, << <<CanvasRegion(0, 8, 0, 16), 9>> >>}

\* the schedulers the pipeline is built with: set_timesteps of DDIM takes an
\* offset and its step takes eta; LMSDiscreteScheduler takes neither
Schedulers ==
    {[name |-> "DDIM", accepts_offset |-> TRUE, accepts_eta |-> TRUE, is_lms |-> FALSE],
     [name |-> "LMS", accepts_offset |-> FALSE, accepts_eta |-> FALSE, is_lms |-> TRUE]}

\* seed: None (the default) or an integer
Seeds == {None, <<7>>}

ParamSets ==
    [canvas_height : CanvasSizes, canvas_width : CanvasSizes,
     num_inference_steps : 1..MaxSteps, eta : {<<0, 1>>}, seed : Seeds,
     seed_reroll_regions : RerollLists, cpu_vae : {FALSE}, decode_steps : BOOLEAN,
     scheduler : Schedulers]

RegionIdle ==
    /\ obj = NoRegion
    /\ args = NoArgs
    /\ op = ""

\* the state as __call__ is entered
CallEntered ==
    /\ RegionIdle
    /\ raised = ""
    /\ pc = "call"
    /\ init_noise = None
    /\ latents = None
    /\ i = 0
    /\ mask_weights = <<>>
    /\ noise_preds_regions = <<>>
    /\ noise_pred = None
    /\ contributors = None
    /\ steps_images = Unset
    /\ output = None
    /\ injected = {}

Init ==
    /\ CallEntered
    /\ regions \in RegionLists
    /\ params \in ParamSets
    /\ twin = None

\* canvas.py:188-205: the noise is drawn, cloned, and the overrides applied
SeedLatents ==
    /\ pc = "call"
    /\ IF SeedRaises(params.seed)
       THEN /\ raised' = "TypeError"
            /\ pc' = "raised"
            /\ UNCHANGED <<init_noise, latents, steps_images>>
       ELSE /\ raised' = ""
            /\ pc' = "prepare"
            /\ steps_images' = IF params.decode_steps THEN <<>> ELSE Unset
            /\ latents' = ApplyRerolls(
                   Randn(params.seed[1], LatentsRows(params), LatentsCols(params)),
                   IF params.seed_reroll_regions = None THEN <<>>
                   ELSE params.seed_reroll_regions)
            /\ init_noise' = InitNoiseAfterRerolls(
                   Randn(params.seed[1], LatentsRows(params), LatentsCols(params)), latents')
    /\ UNCHANGED <<obj, args, op, regions, params, i, mask_weights, noise_preds_regions,
                   noise_pred, contributors, output, injected>>

\* canvas.py:207-256
Prepare ==
    /\ pc = "prepare"
    /\ latents' = IF params.scheduler.is_lms THEN ScaleBySigma0(latents) ELSE latents
    /\ regions' = PrepareRegions(regions)
    /\ mask_weights' = MaskWeightsOf(regions')
    /\ i' = 0
    /\ pc' = IF params.num_inference_steps > 0 THEN "inject" ELSE "decode"
    /\ UNCHANGED <<regionVars, params, init_noise, noise_preds_regions, noise_pred,
                   contributors, steps_images, output, injected>>

\* the image2image regions (by their index in the list of them) that are
\* injected at loop index idx
InjectedAt(ps, irs, idx) == {k \in 1..Len(irs) : idx < InfluenceStep(ps, irs[k])}

\* canvas.py:259-276
Inject ==
    /\ pc = "inject"
    /\ latents' = InjectImage2Image(latents, init_noise, params, Image2ImageRegions(regions), i)
    /\ injected' = injected \cup
                   {<<k, i>> : k \in InjectedAt(params, Image2ImageRegions(regions), i)}
    /\ pc' = "denoise"
    /\ UNCHANGED <<regionVars, regions, params, init_noise, i, mask_weights,
                   noise_preds_regions, noise_pred, contributors, steps_images, output>>

\* canvas.py:278-296
Denoise ==
    /\ pc = "denoise"
    /\ noise_preds_regions' = NoisePredsRegions(params, Text2ImageRegions(regions), i)
    /\ pc' = "merge"
    /\ UNCHANGED <<regionVars, regions, params, init_noise, latents, i, mask_weights,
                   noise_pred, contributors, steps_images, output, injected>>

\* canvas.py:298-307
Merge ==
    /\ pc = "merge"
    /\ noise_pred' = MergeNoisePreds(params, Text2ImageRegions(regions),
                                     noise_preds_regions, mask_weights)
    /\ contributors' = Contributors(params, Text2ImageRegions(regions), mask_weights)
    /\ pc' = "step"
    /\ UNCHANGED <<regionVars, regions, params, init_noise, latents, i, mask_weights,
                   noise_preds_regions, steps_images, output, injected>>

\* canvas.py:309-326, and the loop's advance
Step ==
    /\ pc = "step"
    /\ latents' = SchedulerStep(noise_pred, params, i, latents)
    /\ steps_images' = IF params.decode_steps
                       THEN Append(steps_images, DecodeLatents(latents', params.cpu_vae))
                       ELSE steps_images
    /\ i' = i + 1
    /\ pc' = IF i + 1 < params.num_inference_steps THEN "inject" ELSE "decode"
    /\ UNCHANGED <<regionVars, regions, params, init_noise, mask_weights,
                   noise_preds_regions, noise_pred, contributors, output, injected>>

\* canvas.py:328-334
Finalize ==
    /\ pc = "decode"
    /\ output' = IF params.decode_steps
                 THEN [sample |-> DecodeLatents(latents, params.cpu_vae),
                       steps_images |-> steps_images]
                 ELSE [sample |-> DecodeLatents(latents, params.cpu_vae)]
    /\ pc' = "done"
    /\ UNCHANGED <<regionVars, regions, params, init_noise, latents, i, mask_weights,
                   noise_preds_regions, noise_pred, contributors, steps_images, injected>>

Next ==
    \/ SeedLatents /\ UNCHANGED twin
    \/ Prepare /\ UNCHANGED twin
    \/ Inject /\ UNCHANGED twin
    \/ Denoise /\ UNCHANGED twin
    \/ Merge /\ UNCHANGED twin
    \/ Step /\ UNCHANGED twin
    \/ Finalize /\ UNCHANGED twin

Spec == Init /\ [][Next]_vars

(***************************************************************************)
(* PermSpec: the call is made twice with the same arguments and the same   *)
(* results of the collaborators, the second time on the list with two      *)
(* regions swapped; the copies advance together.                           *)
(***************************************************************************)
\* the list with entries j and k exchanged
SwapSeq(rs, j, k) ==
    [n \in 1..Len(rs) |-> IF n = j THEN rs[k] ELSE IF n = k THEN rs[j] ELSE rs[n]]

\* whether the latent rectangles of two regions share a cell
Overlap(a, b) ==
    /\ a.latent_row_init < b.latent_row_end /\ b.latent_row_init < a.latent_row_end
    /\ a.latent_col_init < b.latent_col_end /\ b.latent_col_init < a.latent_col_end

\* the arguments offered to the paired calls: seeded, without overrides or
\* snapshots
PermParamSets ==
    {ps \in ParamSets :
        ps.seed # None /\ ps.seed_reroll_regions = None /\ ~ps.decode_steps}

PermInit ==
    /\ CallEntered
    /\ regions \in RegionLists
    /\ params \in PermParamSets
    /\ \E j, k \in 1..Len(regions) :
        /\ j < k
        /\ Overlap(regions[j], regions[k])
        /\ twin = [swap |-> <<j, k>>, regions |-> SwapSeq(regions, j, k),
                   init_noise |-> None, latents |-> None, mask_weights |-> <<>>,
                   noise_preds_regions |-> <<>>, noise_pred |-> None]

TwinSeedLatents ==
    twin' = [twin EXCEPT !.init_noise = init_noise', !.latents = latents']

\* the swapped list holds the same region objects, prepared by the same
\* collaborators
TwinPrepare ==
    twin' = [twin EXCEPT
                !.regions = SwapSeq(regions', twin.swap[1], twin.swap[2]),
                !.latents = IF params.scheduler.is_lms THEN ScaleBySigma0(twin.latents)
                            ELSE twin.latents,
                !.mask_weights = MaskWeightsOf(SwapSeq(regions', twin.swap[1], twin.swap[2]))]

TwinInject ==
    twin' = [twin EXCEPT
                !.latents = InjectImage2Image(twin.latents, twin.init_noise, params,
                                              Image2ImageRegions(twin.regions), i)]

TwinDenoise ==
    twin' = [twin EXCEPT
                !.noise_preds_regions =
                    NoisePredsRegions(params, Text2ImageRegions(twin.regions), i)]

TwinMerge ==
    twin' = [twin EXCEPT
                !.noise_pred = MergeNoisePreds(params, Text2ImageRegions(twin.regions),
                                               twin.noise_preds_regions, twin.mask_weights)]

TwinStep ==
    twin' = [twin EXCEPT !.latents = SchedulerStep(twin.noise_pred, params, i, twin.latents)]

PermNext ==
    \/ SeedLatents /\ TwinSeedLatents
    \/ Prepare /\ TwinPrepare
    \/ Inject /\ TwinInject
    \/ Denoise /\ TwinDenoise
    \/ Merge /\ TwinMerge
    \/ Step /\ TwinStep
    \/ Finalize /\ UNCHANGED twin

PermSpec == PermInit /\ [][PermNext]_vars

(***************************************************************************)
(* The claims                                                              *)
(***************************************************************************)
\* the text2image regions of the call in progress
TextRegions == Text2ImageRegions(regions)

\* the image2image regions of the call in progress
ImageRegions == Image2ImageRegions(regions)

\* the cells of the canvas
CanvasPositions == Positions(LatentsRows(params), LatentsCols(params))

\* the text2image regions (by index) whose latent rectangle holds p
Covering(p) == {k \in 1..Len(TextRegions) : Covers(TextRegions[k], p)}

RECURSIVE WeightedSumOver(_, _)
\* sum over the regions K of (mask weight at p) * (guided prediction at p)
WeightedSumOver(K, p) ==
    IF K = {} THEN SumZero
    ELSE LET k == CHOOSE n \in K : TRUE
         IN AddTerm(WeightedSumOver(K \ {k}, p),
                    noise_preds_regions[k][Local(TextRegions[k], p)],
                    mask_weights[k][Local(TextRegions[k], p)])

RECURSIVE WeightSumOver(_, _)
\* sum over the regions K of the mask weight at p
WeightSumOver(K, p) ==
    IF K = {} THEN FxZero
    ELSE LET k == CHOOSE n \in K : TRUE
         IN FxAdd(WeightSumOver(K \ {k}, p), mask_weights[k][Local(TextRegions[k], p)])

\* C1: once the predictions of a timestep are merged, at every canvas position
\* covered by two or more text regions the merged prediction is the sum over
\* the covering regions of weight * prediction, divided by the sum of their
\* weights.
C1_WeightedAverage ==
    pc = "step" =>
        \A p \in CanvasPositions :
            Cardinality(Covering(p)) >= 2 =>
                noise_pred[p] = Divide(WeightedSumOver(Covering(p), p),
                                       WeightSumOver(Covering(p), p))

\* C2: once the predictions of a timestep are merged, at every canvas position
\* covered by exactly one text region, of whatever mask type, weight and size,
\* the merged prediction is that region's guided prediction.
C2_SingleRegionUnchanged ==
    pc = "step" =>
        \A p \in CanvasPositions : \A k \in Covering(p) :
            Covering(p) = {k} =>
                noise_pred[p] = noise_preds_regions[k][Local(TextRegions[k], p)]

\* C3: the merged prediction handed to the scheduler step is exactly zero (no
\* NaN, no infinity) at every canvas position that no text region covers, also
\* when there is no text region at all.
C3_UncoveredIsZero ==
    pc = "step" =>
        \A p \in CanvasPositions : Covering(p) = {} => noise_pred[p] = <<"zero">>

\* C3 witness: a merge with a text region that leaves a position uncovered
C3_Witness ==
    /\ pc = "step"
    /\ Len(TextRegions) >= 1
    /\ \E p \in CanvasPositions : Covering(p) = {} /\ noise_pred[p] = <<"zero">>

\* the loop indices whose injection stage has run
InjectionDone == {idx \in 0..(params.num_inference_steps - 1) : idx < i \/ (idx = i /\ pc \in {"denoise", "merge", "step"})}

\* floor(strength * N) + o, clamped to N, from the call's arguments
ClaimedCutoff(region) ==
    Min(((params.num_inference_steps * region.strength[1]) \div region.strength[2])
            + (IF params.scheduler.accepts_offset THEN 1 ELSE 0),
        params.num_inference_steps)

\* C4: an image region is injected at loop index idx exactly when
\* idx < min(floor(strength * N) + o, N); so the injected indices are a prefix
\* of the loop.
C4_InjectionPrefix ==
    pc \in {"inject", "denoise", "merge", "step", "decode", "done"} =>
        \A k \in 1..Len(ImageRegions) : \A idx \in InjectionDone :
            (<<k, idx>> \in injected) <=> (idx < ClaimedCutoff(ImageRegions[k]))

\* C4 witness: strength 1/2, two steps, no offset: the run is over, index 0
\* was injected and index 1 was not
C4_Witness ==
    /\ pc = "done"
    /\ params.num_inference_steps = 2
    /\ ~params.scheduler.accepts_offset
    /\ \E k \in 1..Len(ImageRegions) :
        /\ ImageRegions[k].strength = <<1, 2>>
        /\ <<k, 0>> \in injected
        /\ <<k, 1>> \notin injected

\* C5: a constructor called with row_end <= row_init or col_end <= col_init
\* yields no region object.
C5_EmptyRectangleRejected ==
    (op \in {"CanvasRegion", "Text2ImageRegion", "Image2ImageRegion"}
     /\ (args.row_end <= args.row_init \/ args.col_end <= args.col_init))
        => obj.kind = "none"

\* C6: encode_prompt on a region never tokenized raises and leaves
\* encoded_prompt unset; after tokenize_prompt it succeeds and sets it; and
\* encoded_prompt is set only in states where tokenized_prompt is set.
C6_TwoPhase ==
    /\ [](obj.encoded_prompt # None => obj.tokenized_prompt # None)
    /\ [][op' = "encode_prompt" =>
            IF obj.tokenized_prompt = None
            THEN raised' = "AssertionError" /\ obj'.encoded_prompt = None
            ELSE raised' = "" /\ obj'.encoded_prompt # None]_vars

\* C6 witness: encode_prompt has just failed on an untokenized region
C6_Witness ==
    /\ op = "encode_prompt"
    /\ raised = "AssertionError"
    /\ obj.tokenized_prompt = None
    /\ obj.encoded_prompt = None

\* l is p floor-divided by 8
IsFloorDiv8(l, p) == 8 * l <= p /\ p < 8 * l + 8

\* C8: each latent bound is the pixel bound floor-divided by 8, and a pixel
\* extent of at least 8 along an axis gives a latent end bound strictly above
\* the latent init bound on that axis.
C8_LatentBounds ==
    obj.kind # "none" =>
        /\ IsFloorDiv8(obj.latent_row_init, obj.row_init)
        /\ IsFloorDiv8(obj.latent_row_end, obj.row_end)
        /\ IsFloorDiv8(obj.latent_col_init, obj.col_init)
        /\ IsFloorDiv8(obj.latent_col_end, obj.col_end)
        /\ (obj.row_end - obj.row_init >= 8 => obj.latent_row_end > obj.latent_row_init)
        /\ (obj.col_end - obj.col_init >= 8 => obj.latent_col_end > obj.latent_col_init)

\* C8 witness: a region of extent exactly 8 whose bounds are not multiples of 8
C8_Witness ==
    /\ obj.kind # "none"
    /\ obj.row_init = 1 /\ obj.row_end = 9
    /\ obj.col_init = -1 /\ obj.col_end = 7
    /\ obj.latent_row_end > obj.latent_row_init
    /\ obj.latent_col_end > obj.latent_col_init

\* the cells of the canvas inside some override's latent rectangle
Rerolled ==
    IF params.seed_reroll_regions = None THEN {}
    ELSE {p \in CanvasPositions :
            \E n \in 1..Len(params.seed_reroll_regions) :
                Covers(params.seed_reroll_regions[n][1], p)}

\* the draw of the generator seeded with the call's seed, at p
OriginalNoise(p) ==
    <<"randn", params.seed[1], LatentsRows(params), LatentsCols(params), p[1], p[2]>>

\* C7: when the overrides have been applied, latents equals init_noise
\* outside every override rectangle; init_noise holds the noise as first drawn
\* at every position, from then to the end of the call; and whatever an image
\* region injects is noised with that first draw.
C7_RerollFrame ==
    /\ pc = "prepare" =>
          \A p \in CanvasPositions \ Rerolled : latents[p] = init_noise[p]
    /\ pc \in {"prepare", "inject", "denoise", "merge", "step", "decode", "done"} =>
          \A p \in CanvasPositions : init_noise[p] = OriginalNoise(p)
    /\ pc = "denoise" =>
          \A p \in CanvasPositions :
              latents[p][1] = "add_noise" => latents[p][3] = OriginalNoise(p)

\* C7 witness: an override was applied and an image region has been injected
\* over the overridden rectangle
C7_Witness ==
    /\ pc = "denoise"
    /\ Rerolled # {}
    /\ \E p \in Rerolled : latents[p][1] = "add_noise" /\ init_noise[p] = OriginalNoise(p)

\* C9: a call that leaves seed at its default None is not stopped at the
\* seeding step.
C9_SeedOptional ==
    params.seed = None => pc # "raised"

\* the cells shared by the latent rectangles of the two swapped regions
SwappedOverlap ==
    {p \in CanvasPositions :
        Covers(regions[twin.swap[1]], p) /\ Covers(regions[twin.swap[2]], p)}

\* a timestep has just been completed
AfterTimestep == pc \in {"inject", "decode"} /\ i > 0

StepMark(idx) ==
    IF params.scheduler.is_lms THEN <<"index", idx>> ELSE Timestep(params, idx)

\* the stages of one pass of the loop
LoopStages == {"inject", "denoise", "merge", "step"}

\* the snapshots are one per completed timestep, in timestep order, each the
\* decoding of latents that the scheduler step of that timestep produced
SnapshotsInOrder ==
    /\ Len(steps_images) = i
    /\ \A k \in 1..i :
        /\ steps_images[k][1] = "decoded"
        /\ \A p \in CanvasPositions :
            /\ steps_images[k][2][p][1] = "step"
            /\ steps_images[k][2][p][3] = StepMark(k - 1)
    /\ (i > 0 /\ pc \in {"inject", "decode", "done"}) =>
            steps_images[i] = DecodeLatents(latents, params.cpu_vae)

\* the response of a finished call
ResponseShape ==
    /\ output.sample = DecodeLatents(latents, params.cpu_vae)
    /\ IF params.decode_steps
       THEN /\ DOMAIN output = {"sample", "steps_images"}
            /\ output.steps_images = steps_images
            /\ Len(output.steps_images) = params.num_inference_steps
       ELSE DOMAIN output = {"sample"}

\* the stages of a pass follow one another at the same loop index, and the
\* scheduler step of the pass consumes the merged prediction of the pass at
\* the timestep of the pass
OnePassPerTimestep ==
    /\ pc = "inject" => pc' = "denoise" /\ i' = i
    /\ pc = "denoise" => pc' = "merge" /\ i' = i
    /\ pc = "merge" => pc' = "step" /\ i' = i
    /\ pc = "step" =>
        /\ i' = i + 1
        /\ pc' = IF i' < params.num_inference_steps THEN "inject" ELSE "decode"
        /\ \A p \in CanvasPositions :
            /\ latents'[p][1] = "step"
            /\ latents'[p][2] = noise_pred[p]
            /\ latents'[p][3] = StepMark(i)
            /\ latents'[p][4] = latents[p]
    /\ pc' = "inject" => pc \in {"prepare", "step"}
    /\ pc' = "decode" => pc = "step"

\* C11: a call that reaches the loop makes, for each entry of the timestep
\* sequence in order, exactly one pass inject -> denoise -> merge -> scheduler
\* step; with decode_steps the snapshots are one per timestep, in timestep
\* order, each decoded from the latents right after that timestep's scheduler
\* step, and the response holds them beside the final image; without
\* decode_steps the response holds the final image only.
C11_LoopAndSnapshots ==
    /\ [](pc \in LoopStages => i < params.num_inference_steps)
    /\ [](pc \in {"decode", "done"} => i = params.num_inference_steps)
    /\ []((pc \in LoopStages \cup {"prepare", "decode", "done"}) =>
            IF params.decode_steps THEN SnapshotsInOrder ELSE steps_images = Unset)
    /\ [](pc = "done" => ResponseShape)
    /\ [][OnePassPerTimestep]_vars

\* C11 witness: a call of two timesteps with decode_steps has returned its
\* two snapshots, the second decoded from the final latents
C11_Witness ==
    /\ pc = "done"
    /\ params.decode_steps
    /\ params.num_inference_steps = 2
    /\ Len(output.steps_images) = 2
    /\ output.steps_images[1] # output.steps_images[2]
    /\ output.steps_images[2] = output.sample

====
